---- MODULE Spec2Model ----
(***************************************************************************)
(* Model of bin/LDA.py: one run of the command line program, from the      *)
(* parsed arguments to process exit.  The run is a single sequential       *)
(* pipeline; pc is the position of main().  Numeric cell values, LDA       *)
(* coordinates and variance ratios are opaque symbols; shapes, labels,     *)
(* key sets, orders of calls and exit paths are modelled as coded.         *)
(*                                                                         *)
(* Sample IDs and group names are opaque strings in the program.  Here     *)
(* the samples of the mapping file are numbered 1..n with those that are   *)
(* rows of the matrix first, sample 0 is a row of the matrix that the      *)
(* mapping file does not hold, and groups are numbered in order of first   *)
(* appearance.  The order of the keys of a Python 2 dict is arbitrary and  *)
(* is chosen freely where plot_LDA reads it.  Arguments that only style    *)
(* the figure (sizes, fonts, angles, title, ggplot2 styling) do not change *)
(* the control flow and are left out; library calls return unless the code *)
(* handles their exception, and file writes succeed.                       *)
(***************************************************************************)
EXTENDS Integers, Sequences, FiniteSets, TLC

\* Bounds of the model.
MaxSamples == 4
MaxFeatures == 3

\* Program constants.
PaletteSize == 12
\* plt.ylim((0.5, 2.5)), in units of one half.
YLimLowHalves == 1
YLimHighHalves == 5
\* sys.exit(<str>) and an uncaught exception both end the process with 1.
ExitFailure == 1
ExitSuccess == 0
\* Columns of X_lda that a 3D figure needs: assert X_lda.shape[1] >= 3.
AxesFor3D == 3

VARIABLES args, pc, header, imap, category_idx, class_colors, df, sampleids,
          export, X_lda, y_lda, exp_var, fig, saved, shown, exit, log

vars == <<args, pc, header, imap, category_idx, class_colors, df, sampleids,
          export, X_lda, y_lda, exp_var, fig, saved, shown, exit, log>>

----------------------------------------------------------------------------
\* Helpers

Range(s) == {s[i] : i \in 1..Len(s)}

Min(a, b) == IF a < b THEN a ELSE b

SetMax(S) == CHOOSE m \in S : \A x \in S : x <= m

\* Python list.index: 0-based position of the first occurrence, -1 standing
\* for the ValueError raised when x is absent.
PyIndex(s, x) ==
    IF x \in Range(s)
    THEN (CHOOSE i \in 1..Len(s) : s[i] = x /\ \A j \in 1..(i-1) : s[j] # x) - 1
    ELSE -1

\* Python s[i] with a 0-based i.
PyGet(s, i) == s[i + 1]

\* All orderings of a finite set, as sequences without repetition.
Orderings(S) ==
    {s \in [1..Cardinality(S) -> S] : \A i, j \in 1..Cardinality(S) : s[i] = s[j] => i = j}

\* Ascending sequence of a finite set of integers.
RECURSIVE Ascending(_)
Ascending(S) ==
    IF S = {} THEN <<>>
    ELSE LET m == SetMax(S) IN Append(Ascending(S \ {m}), m)

\* Group assignments of samples 1..n, groups numbered by first appearance.
GroupAssignments(n) ==
    {f \in [1..n -> 1..n] :
        /\ f[1] = 1
        /\ \A i \in 2..n : f[i] <= 1 + SetMax({f[j] : j \in 1..(i-1)})}

----------------------------------------------------------------------------
\* Values of variables that are not bound yet.

NoMap == [s \in {} |-> <<>>]
NoFrame == [index |-> <<>>, columns |-> <<>>, condition |-> <<>>, ops |-> <<>>]
NoFile == [written |-> FALSE, index |-> <<>>, columns |-> <<>>, condition |-> <<>>]
NoArray == [nrows |-> 0, ncols |-> 0]
NoFigure == [created |-> FALSE]
Running == [status |-> -1, msg |-> "running"]

\* handle_program_options: the parsed arguments the run depends on.
ArgSpace ==
    [group_by : {"Group"},
     colors : {"None", "Color"},
     matrix : {"dist_matrix_file", "otu_table"},
     save_lda_input : BOOLEAN,
     out_fp : BOOLEAN,
     dimensions : {2, 3},
     annotate_points : BOOLEAN]

Init ==
    /\ args \in ArgSpace
    /\ pc = "parse_map"
    /\ header = <<>>
    /\ imap = NoMap
    /\ category_idx = -1
    /\ class_colors = NoMap
    /\ df = NoFrame
    /\ sampleids = <<>>
    /\ export = NoFile
    /\ X_lda = NoArray
    /\ y_lda = <<>>
    /\ exp_var = <<>>
    /\ fig = NoFigure
    /\ saved = FALSE
    /\ shown = FALSE
    /\ exit = Running
    /\ log = <<>>

----------------------------------------------------------------------------
\* Process termination.

\* Faulty variant: the message is printed and the status is 0.
SysExit_StatusZero(msg) == [status |-> ExitSuccess, msg |-> msg]

\* sys.exit(err_msg): the message is printed, the status is 1.
SysExit(msg) == [status |-> ExitFailure, msg |-> msg]

\* An exception no handler of main catches: traceback, status 1.
Uncaught(exc) == [status |-> ExitFailure, msg |-> exc]

Tracebacks == {"ValueError", "KeyError", "IndexError"}

----------------------------------------------------------------------------
\* main, lines 199-205: read the mapping file and find the group column.

MapHeaders == {<<"#SampleID", "Group", "Color">>, <<"#SampleID", "Treatment", "Color">>}

\* Row of sample s: its ID, its group and the colour of its group.
MapRow(s, g) == <<s, g, g>>

ParseMap ==
    /\ pc = "parse_map"
    /\ \/ \* IOError: the mapping file cannot be read
          /\ exit' = SysExit("map_error")
          /\ pc' = "done"
          /\ log' = Append(log, "parse_map_file:IOError")
          /\ UNCHANGED <<header, imap, category_idx>>
       \/ \E h \in MapHeaders, n \in 1..MaxSamples :
          \E f \in GroupAssignments(n) :
            /\ header' = h
            /\ imap' = [s \in 1..n |-> MapRow(s, f[s])]
            /\ category_idx' = PyIndex(h, args.group_by)
            /\ IF PyIndex(h, args.group_by) = -1
               THEN /\ exit' = Uncaught("ValueError")
                    /\ pc' = "done"
                    /\ log' = Append(log, "header.index:ValueError")
               ELSE /\ exit' = exit
                    /\ pc' = "colors"
                    /\ log' = Append(log, "parse_map_file")
    /\ UNCHANGED <<args, class_colors, df, sampleids, export, X_lda, y_lda,
                   exp_var, fig, saved, shown>>

----------------------------------------------------------------------------
\* main, lines 207-215: the colour of every group.

\* Faulty variant: the first row of the mapping file is skipped.
Categories_SkipFirst(m, idx) == {PyGet(m[k], idx) : k \in DOMAIN m \ {1}}

\* categories = {v[category_idx] for k, v in imap.items()}
Categories(m, idx) == {PyGet(m[k], idx) : k \in DOMAIN m}

\* color_cycle.next() for the i-th category (i from 0): the palette repeats
\* after PaletteSize colours.
CycleColor(i) == [src |-> "Set3_12", value |-> (i % PaletteSize) + 1]

\* class_colors = {c: color_cycle.next() for c in categories}.  Which
\* category meets which palette entry depends on the set's iteration order;
\* the colours are read by no property here and the ascending order is used.
AutoColors(categories) ==
    [c \in categories |-> CycleColor(PyIndex(Ascending(categories), c))]

\* util.color_mapping(imap, header, group_by, colors): one entry per group
\* of the mapping file, its colour read from the colour column.
color_mapping(m, h, group_by, colors) ==
    [g \in {PyGet(m[k], PyIndex(h, group_by)) : k \in DOMAIN m} |->
        [src |-> "column",
         value |-> PyGet(m[CHOOSE k \in DOMAIN m : PyGet(m[k], PyIndex(h, group_by)) = g],
                         PyIndex(h, colors))]]

ObtainColors ==
    /\ pc = "colors"
    /\ class_colors' = IF args.colors = "None"
                       THEN AutoColors(Categories(imap, category_idx))
                       ELSE color_mapping(imap, header, args.group_by, args.colors)
    /\ pc' = "read"
    /\ log' = Append(log, "class_colors")
    /\ UNCHANGED <<args, header, imap, category_idx, df, sampleids, export,
                   X_lda, y_lda, exp_var, fig, saved, shown, exit>>

----------------------------------------------------------------------------
\* main, lines 217-222 and 232-242: read the matrix.

FeatureColumns(n) == [j \in 1..n |-> [name |-> "feature", j |-> j]]

\* Rows of a matrix file: the first m samples of the mapping file and,
\* when unmapped, one sample the mapping file does not hold.
MatrixRows(m, unmapped) == [i \in 1..m |-> i] \o (IF unmapped THEN <<0>> ELSE <<>>)

RowChoices ==
    {MatrixRows(m, u) : m \in 0..Cardinality(DOMAIN imap), u \in BOOLEAN} \ {<<>>}

\* Faulty variant: the distance rows go through the arcsine transform.
DistMatrixFrame_Transformed(rows) ==
    [index |-> rows, columns |-> FeatureColumns(Len(rows)), condition |-> <<>>,
     ops |-> <<"arcsine_sqrt_transform">>]

\* pd.read_csv(dist_matrix_file, sep="\t", index_col=0): a square table,
\* one column per sample, its values as read.
DistMatrixFrame(rows) ==
    [index |-> rows, columns |-> FeatureColumns(Len(rows)), condition |-> <<>>,
     ops |-> <<>>]

\* bc.relative_abundance, then bc.arcsine_sqrt_transform, then
\* pd.DataFrame(rel_abd).T: samples become the rows.
OtuFrame(rows, nfeat) ==
    [index |-> rows, columns |-> FeatureColumns(nfeat), condition |-> <<>>,
     ops |-> <<"relative_abundance", "arcsine_sqrt_transform", "T">>]

\* main, lines 217-222.
ReadDistMatrix ==
    /\ pc = "read"
    /\ args.matrix = "dist_matrix_file"
    /\ \/ /\ exit' = SysExit("dm_error")
          /\ pc' = "done"
          /\ log' = Append(log, "read_csv:IOError")
          /\ df' = df
       \/ \E rows \in RowChoices :
            /\ df' = DistMatrixFrame(rows)
            /\ pc' = "condition"
            /\ log' = Append(log, "read_csv")
            /\ exit' = exit
    /\ UNCHANGED <<args, header, imap, category_idx, class_colors, sampleids,
                   export, X_lda, y_lda, exp_var, fig, saved, shown>>

\* main, lines 232-242.
ReadOtuTable ==
    /\ pc = "read"
    /\ args.matrix = "otu_table"
    /\ \/ /\ exit' = SysExit("biom_error")
          /\ pc' = "done"
          /\ log' = Append(log, "load_table:IOError")
          /\ df' = df
       \/ \E rows \in RowChoices, nfeat \in 1..MaxFeatures :
            /\ df' = OtuFrame(rows, nfeat)
            /\ pc' = "condition"
            /\ log' = Append(log, "load_table")
            /\ exit' = exit
    /\ UNCHANGED <<args, header, imap, category_idx, class_colors, sampleids,
                   export, X_lda, y_lda, exp_var, fig, saved, shown>>

----------------------------------------------------------------------------
\* main, lines 223 and 243-244: df.insert(0, "Condition", [...]).

ConditionColumn == [name |-> "Condition", j |-> 0]

\* Faulty variant: the table is written without its first column.
to_csv_DropFirst(frame) ==
    [written |-> TRUE, index |-> frame.index, columns |-> Tail(frame.columns),
     condition |-> <<>>]

\* DataFrame.to_csv(path, sep="\t"): the index, then the columns.
to_csv(frame) ==
    [written |-> TRUE, index |-> frame.index, columns |-> frame.columns,
     condition |-> frame.condition]

\* Faulty variant: a missing sid gets a default group (imap.get).
Conditions_Default(index) ==
    [raised |-> FALSE,
     values |-> [i \in 1..Len(index) |->
                    IF index[i] \in DOMAIN imap
                    THEN PyGet(imap[index[i]], category_idx) ELSE 0]]

\* [imap[sid][category_idx] for sid in index]: the list, or the KeyError of
\* the first sid that is no key of imap.
Conditions(index) ==
    IF \A i \in 1..Len(index) : index[i] \in DOMAIN imap
    THEN [raised |-> FALSE,
          values |-> [i \in 1..Len(index) |-> PyGet(imap[index[i]], category_idx)]]
    ELSE [raised |-> TRUE, values |-> <<>>]

InsertCondition ==
    /\ pc = "condition"
    /\ IF ~Conditions(df.index).raised
       THEN /\ df' = [df EXCEPT !.columns = <<ConditionColumn>> \o df.columns,
                                !.condition = Conditions(df.index).values]
            /\ pc' = "sampleids"
            /\ log' = Append(log, "insert_condition")
            /\ exit' = exit
       ELSE /\ df' = df
            /\ pc' = "done"
            /\ log' = Append(log, "insert_condition:KeyError")
            /\ exit' = Uncaught("KeyError")
    /\ UNCHANGED <<args, header, imap, category_idx, class_colors, sampleids,
                   export, X_lda, y_lda, exp_var, fig, saved, shown>>

\* main, lines 224-227 and 245-248.
SelectSampleIDs ==
    /\ pc = "sampleids"
    /\ sampleids' = IF args.annotate_points THEN df.index ELSE <<>>
    /\ pc' = "save_input"
    /\ log' = Append(log, "sampleids")
    /\ UNCHANGED <<args, header, imap, category_idx, class_colors, df, export,
                   X_lda, y_lda, exp_var, fig, saved, shown, exit>>

\* main, lines 228-229 and 249-250.
SaveLdaInput ==
    /\ pc = "save_input"
    /\ export' = IF args.save_lda_input THEN to_csv(df) ELSE export
    /\ pc' = "run_lda"
    /\ log' = Append(log, IF args.save_lda_input THEN "to_csv" ELSE "no_csv")
    /\ UNCHANGED <<args, header, imap, category_idx, class_colors, df, sampleids,
                   X_lda, y_lda, exp_var, fig, saved, shown, exit>>

----------------------------------------------------------------------------
\* run_LDA, lines 124-142.

\* The string "NA" as Python indexes it: two one-character strings.
NASentinel == <<[t |-> "str", v |-> 0], [t |-> "str", v |-> 0]>>

\* explained_variance_ratio_: one float per discriminant axis.
Ratios(n) == [k \in 1..n |-> [t |-> "float", v |-> k]]

\* fit_transform gives at most min(features, groups - 1) columns.
MaxAxes(frame) ==
    Min(Len(frame.columns) - 1, Cardinality(Range(frame.condition)) - 1)

RunLDA ==
    /\ pc = "run_lda"
    /\ \E naxes \in 0..MaxAxes(df), has_ratio \in BOOLEAN :
        /\ X_lda' = [nrows |-> Len(df.index), ncols |-> naxes]
        /\ y_lda' = df.condition
        /\ exp_var' = IF has_ratio THEN Ratios(naxes) ELSE NASentinel
    /\ pc' = "plot"
    /\ log' = Append(log, "run_LDA")
    /\ UNCHANGED <<args, header, imap, category_idx, class_colors, df, sampleids,
                   export, fig, saved, shown, exit>>

----------------------------------------------------------------------------
\* plot_LDA, lines 45-121.

\* X_lda[r, k] for the 1-based row r and axis k: an opaque float.
LD(r, k) == [kind |-> "ld", a |-> r, b |-> k]

\* A coordinate the code makes up.
Const(v) == [kind |-> "const", a |-> v, b |-> 0]

\* Rows selected by the mask y_lda == target_name, in row order.
RowsOf(target_name) == Ascending({r \in 1..Len(y_lda) : y_lda[r] = target_name})

\* cat_y of the series drawn at the 0-based loop index i, lines 79-82:
\* np.ones(...) + i when X_lda has one column, else the second column.
cat_y(i, r) == IF X_lda.ncols = 1 THEN Const(1 + i) ELSE LD(r, 2)

\* The 2D scatter loop, lines 77-84: one series per key of class_colors.
Scatter2D(cats) ==
    [c \in Range(cats) |->
        [color |-> class_colors[c],
         points |-> [n \in 1..Len(RowsOf(c)) |->
                        [x |-> LD(RowsOf(c)[n], 1),
                         y |-> cat_y(PyIndex(cats, c), RowsOf(c)[n]),
                         z |-> Const(0)]]]]

\* The 3D scatter loop, lines 68-74.
Scatter3D(cats) ==
    [c \in Range(cats) |->
        [color |-> class_colors[c],
         points |-> [n \in 1..Len(RowsOf(c)) |->
                        [x |-> LD(RowsOf(c)[n], 1),
                         y |-> LD(RowsOf(c)[n], 2),
                         z |-> LD(RowsOf(c)[n], 3)]]]]

\* Faulty variant: the 0-based index without the + 1.
AnnotationY_NoOffset(cats, r) ==
    IF X_lda.ncols >= 2 THEN LD(r, 2) ELSE Const(PyIndex(cats, y_lda[r]))

\* The anchor of the annotation of row r, lines 88-91: the row itself when
\* it has two values, else (point[0], cats.index(group) + 1).
AnnotationY(cats, r) ==
    IF X_lda.ncols >= 2 THEN LD(r, 2) ELSE Const(PyIndex(cats, y_lda[r]) + 1)

\* zip(sids, X_lda, y_lda), lines 86-94.
Annotations(cats) ==
    [r \in 1..Min(Len(sampleids), Len(y_lda)) |->
        [s |-> sampleids[r], x |-> LD(r, 1), y |-> AnnotationY(cats, r)]]

\* cats.index(group) raises ValueError for a group that is no key.
AnnotationRaises(cats) ==
    /\ sampleids # <<>>
    /\ X_lda.ncols < 2
    /\ \E r \in 1..Len(y_lda) : y_lda[r] \notin Range(cats)

\* Faulty variant: the format accepts whatever ev[k] holds.
FormatsPercent_AnyValue(ev, k) == k + 1 <= Len(ev)

\* "...{:.3f}%".format(ev[k]*100) with the 0-based k: IndexError past the
\* end; a one-character string times 100 is a string, which the float format
\* refuses (ValueError).  TRUE when the format succeeds.
FormatsPercent(ev, k) == k + 1 <= Len(ev) /\ PyGet(ev, k).t = "float"

\* Lines 63-67 and 97-106: the label of axis k + 1, the bare one from the
\* except branch.
AxisLabel(ev, k) ==
    IF FormatsPercent(ev, k)
    THEN [axis |-> k + 1, percent |-> TRUE, ratio |-> PyGet(ev, k).v]
    ELSE [axis |-> k + 1, percent |-> FALSE, ratio |-> 0]

NoLabel == [axis |-> 0, percent |-> FALSE, ratio |-> 0]

\* Faulty variant: the assertion off by one.
Enough3DAxes_OffByOne == X_lda.ncols >= AxesFor3D - 1

\* Line 54: assert X_lda.shape[1] >= 3.
Enough3DAxes == X_lda.ncols >= AxesFor3D

\* Lines 95-96.
FixedYLim == X_lda.ncols = 1

Figure3D(cats) ==
    [created |-> TRUE, dim |-> 3, series |-> Scatter3D(cats), annotations |-> <<>>,
     ylim_fixed |-> FixedYLim,
     xlabel |-> AxisLabel(exp_var, 0), ylabel |-> AxisLabel(exp_var, 1),
     zlabel |-> AxisLabel(exp_var, 2)]

Figure2D(cats) ==
    [created |-> TRUE, dim |-> 2, series |-> Scatter2D(cats),
     annotations |-> IF sampleids # <<>> THEN Annotations(cats) ELSE <<>>,
     ylim_fixed |-> FixedYLim,
     xlabel |-> AxisLabel(exp_var, 0), ylabel |-> AxisLabel(exp_var, 1),
     zlabel |-> NoLabel]

\* Lines 116-121: savefig when out_fp is given, else show.
SaveOrShow ==
    /\ saved' = args.out_fp
    /\ shown' = ~args.out_fp
    /\ log' = Append(log, IF args.out_fp THEN "savefig" ELSE "show")
    /\ pc' = "returned"
    /\ exit' = exit

\* plot_LDA ends the process before anything is drawn to a file or window.
Abort(e, step) ==
    /\ exit' = e
    /\ pc' = "done"
    /\ log' = Append(log, step)
    /\ UNCHANGED <<saved, shown>>

\* main, lines 254-264, and the whole of plot_LDA.
PlotLDA ==
    /\ pc = "plot"
    /\ \E cats \in Orderings(DOMAIN class_colors) :
        IF args.dimensions = 3
        THEN IF ~Enough3DAxes
             THEN /\ fig' = [created |-> TRUE]
                  /\ Abort(SysExit("groups_insufficient"), "plot_LDA:exit")
             ELSE /\ fig' = Figure3D(cats)
                  /\ SaveOrShow
        ELSE IF X_lda.ncols = 0
             THEN /\ fig' = [created |-> TRUE]
                  /\ Abort(Uncaught("IndexError"), "plot_LDA:IndexError")
             ELSE IF AnnotationRaises(cats)
                  THEN /\ fig' = [created |-> TRUE]
                       /\ Abort(Uncaught("ValueError"), "plot_LDA:ValueError")
                  ELSE /\ fig' = Figure2D(cats)
                       /\ SaveOrShow
    /\ UNCHANGED <<args, header, imap, category_idx, class_colors, df, sampleids,
                   export, X_lda, y_lda, exp_var>>

\* Lines 267-268: sys.exit(main()) with main returning None.
ExitMain ==
    /\ pc = "returned"
    /\ exit' = [status |-> ExitSuccess, msg |-> "none"]
    /\ pc' = "done"
    /\ log' = Append(log, "exit")
    /\ UNCHANGED <<args, header, imap, category_idx, class_colors, df, sampleids,
                   export, X_lda, y_lda, exp_var, fig, saved, shown>>

Next ==
    \/ ParseMap
    \/ ObtainColors
    \/ ReadDistMatrix
    \/ ReadOtuTable
    \/ InsertCondition
    \/ SelectSampleIDs
    \/ SaveLdaInput
    \/ RunLDA
    \/ PlotLDA
    \/ ExitMain

Spec == Init /\ [][Next]_vars

----------------------------------------------------------------------------
\* Properties.

Called(step) == step \in Range(log)

\* plot_LDA drew its figure and reached lines 116-121.
Drawn == Called("savefig") \/ Called("show")

\* Distinct groups of the assembled matrix.
NumGroups == Cardinality(Range(df.condition))

BareLabel(k) == [axis |-> k, percent |-> FALSE, ratio |-> 0]

\* C1: a run with dimensions = 3 whose assembled matrix has fewer than 4
\* distinct groups never reaches savefig or show, and once plot_LDA has
\* acted the process has ended with the 'requires at least 4 groups'
\* message and a non-zero status.
C1_TooFewGroupsFor3D ==
    (args.dimensions = 3 /\ Called("insert_condition") /\ NumGroups < 4) =>
        /\ ~saved /\ ~shown /\ ~Drawn
        /\ pc # "returned"
        /\ pc = "done" =>
            /\ exit.msg = "groups_insufficient"
            /\ exit.status # 0
            /\ Called("plot_LDA:exit")

C1_Witness ==
    /\ pc = "done"
    /\ args.dimensions = 3
    /\ NumGroups = 3
    /\ X_lda.ncols = 2
    /\ exit.msg = "groups_insufficient"
    /\ exit.status = 1

\* C2 as stated: whenever run_LDA returned the "NA" sentinel, the run ends
\* with bare axis labels, the figure saved when an output path was given,
\* and status 0.
C2_NAAlwaysSucceeds ==
    (pc = "done" /\ Called("run_LDA") /\ exp_var = NASentinel) =>
        /\ exit.status = 0
        /\ Drawn
        /\ args.out_fp => saved

\* plot_LDA gets as far as labelling the axes: the 3D axis check passes and
\* the scatter loop finds its first column.
ReachesLabels ==
    /\ args.dimensions = 3 => X_lda.ncols >= 3
    /\ args.dimensions = 2 => X_lda.ncols >= 1

\* C2, amended: whenever run_LDA returned the "NA" sentinel, every axis
\* label plot_LDA sets is the bare "LD<k>"; and unless plot_LDA ended the
\* run before labelling (3D with fewer than 3 axes, or a result without any
\* axis) the run reaches save-or-display, writes the figure exactly when an
\* output path was given, and exits with status 0.
C2_NABareLabels ==
    (Called("run_LDA") /\ exp_var = NASentinel) =>
        /\ Drawn =>
            /\ fig.xlabel = BareLabel(1)
            /\ fig.ylabel = BareLabel(2)
            /\ fig.dim = 3 => fig.zlabel = BareLabel(3)
        /\ (pc = "done" /\ ReachesLabels) =>
            /\ Drawn
            /\ saved = args.out_fp
            /\ shown = ~args.out_fp
            /\ exit.status = 0

C2_Witness ==
    /\ pc = "done"
    /\ exp_var = NASentinel
    /\ args.dimensions = 3
    /\ args.out_fp
    /\ saved
    /\ fig.zlabel = BareLabel(3)
    /\ exit.status = 0

FatalEndings == {"map_error", "dm_error", "biom_error", "KeyError",
                 "groups_insufficient"}

\* C3: in every run that ends in a fatal error (unreadable mapping or
\* matrix file, sample without metadata, 3D with too few groups) neither the
\* figure file nor the --save_lda_input export has been written.
C3_NoArtifactOnFatalError ==
    (pc = "done" /\ exit.msg \in FatalEndings) =>
        /\ ~saved
        /\ ~export.written

InputError ==
    /\ exit.status # 0
    /\ exit.msg \in {"map_error", "dm_error", "biom_error"}
    /\ ~Called("run_LDA")
    /\ ~saved /\ ~shown

Success ==
    /\ exit.status = 0
    /\ saved \/ shown
    /\ Called("savefig") \/ Called("show")

GroupsError ==
    /\ exit.status # 0
    /\ exit.msg = "groups_insufficient"
    /\ Called("run_LDA")
    /\ ~saved /\ ~shown

Crash ==
    /\ exit.status # 0
    /\ exit.msg \in Tracebacks
    /\ ~saved /\ ~shown

\* C4 as stated: every run ends either in a fatal input error before LDA is
\* run or in a success with status 0 after the figure was saved or shown.
C4_TwoOutcomes == pc = "done" => (InputError \/ Success)

ExactlyOne(S) == Cardinality({b \in S : b[2]}) = 1

\* C4, amended: every run ends in exactly one of four outcomes: a fatal
\* input error (message, non-zero status) before LDA is run; the 'requires
\* at least 4 groups' error (message, non-zero status) after LDA and before
\* anything is saved or shown; an uncaught exception (group column missing
\* from the header, sample without metadata, LDA result without an axis;
\* non-zero status, nothing saved or shown); or a success with status 0
\* only after the figure was saved or shown.
C4_FourOutcomes ==
    /\ pc = "done" =>
        ExactlyOne({<<"input", InputError>>, <<"groups", GroupsError>>,
                    <<"crash", Crash>>, <<"success", Success>>})
    /\ exit.status = 0 => (saved \/ shown)

C4_Witness ==
    /\ pc = "done"
    /\ Success
    /\ saved
    /\ exit.status = 0

\* Some row of the matrix has no entry in the mapping file.
RowWithoutMetadata == \E i \in 1..Len(df.index) : df.index[i] \notin DOMAIN imap

\* C5: on either input path, when a row of the matrix has no entry in the
\* mapping file the run fails while building the Condition column: run_LDA
\* is never called, the export is not written, no figure is saved or shown.
C5_MissingMetadataFails ==
    (RowWithoutMetadata /\ pc # "condition") =>
        /\ pc = "done"
        /\ exit = Uncaught("KeyError")
        /\ Called("insert_condition:KeyError")
        /\ ~Called("run_LDA")
        /\ ~export.written
        /\ ~saved /\ ~shown

C5_Witness ==
    /\ pc = "done"
    /\ RowWithoutMetadata
    /\ args.matrix = "otu_table"
    /\ args.save_lda_input
    /\ args.out_fp
    /\ exit.msg = "KeyError"

\* C6: when --save_lda_input is given and the matrix was assembled, the
\* export is written before LDA runs, on either input path; its first
\* column is "Condition" and it has one data row per sample of the matrix.
C6_ExportWritten ==
    (args.save_lda_input /\ Called("insert_condition")
        /\ pc \notin {"sampleids", "save_input"}) =>
        /\ export.written
        /\ Len(export.columns) >= 1
        /\ export.columns[1] = ConditionColumn
        /\ Len(export.index) = Len(df.index)
        /\ Len(export.condition) = Len(df.index)
        /\ Called("to_csv")
        /\ Called("run_LDA") => PyIndex(log, "to_csv") < PyIndex(log, "run_LDA")

C6_Witness ==
    /\ pc = "run_lda"
    /\ args.matrix = "dist_matrix_file"
    /\ export.written
    /\ Len(export.index) = 3
    /\ export.columns[1].name = "Condition"

\* plot_LDA neither exits nor raises; decided by the shape of the LDA
\* result and the requested dimensions alone.
PlotSucceeds ==
    IF args.dimensions = 3 THEN X_lda.ncols >= 3 ELSE X_lda.ncols >= 1

\* C7: the matrix handed to run_LDA holds the raw distance rows on the
\* distance-matrix path and, on the feature-table path, the relative
\* abundances, arcsine-square-root transformed, then transposed; on both
\* paths the exit status is decided in the same way.
C7_InputPerPath ==
    Called("run_LDA") =>
        /\ args.matrix = "dist_matrix_file" => df.ops = <<>>
        /\ args.matrix = "otu_table" =>
            df.ops = <<"relative_abundance", "arcsine_sqrt_transform", "T">>
        /\ pc = "done" => (exit.status = 0 <=> PlotSucceeds)

C7_Witness ==
    /\ pc = "done"
    /\ args.matrix = "dist_matrix_file"
    /\ Called("run_LDA")
    /\ df.ops = <<>>
    /\ Len(df.index) = 3
    /\ exit.status = 0

\* Series of the figure that hold the marker of row r.
SeriesOf(r) ==
    {c \in DOMAIN fig.series :
        \E n \in 1..Len(fig.series[c].points) : fig.series[c].points[n].x = LD(r, 1)}

\* C8: when plot_LDA is called every label of y_lda is a key of
\* class_colors, with auto-assigned and with explicit colours; every sample
\* of the matrix is in exactly one scatter series of the figure.
C8_LabelsAreKeys ==
    Called("run_LDA") =>
        /\ \A r \in 1..Len(y_lda) : y_lda[r] \in DOMAIN class_colors
        /\ Len(y_lda) = Len(df.index)
        /\ Drawn => \A r \in 1..Len(y_lda) : Cardinality(SeriesOf(r)) = 1

C8_Witness ==
    /\ pc = "done"
    /\ Drawn
    /\ args.colors = "None"
    /\ Cardinality(DOMAIN class_colors) = 3
    /\ NumGroups = 2
    /\ Len(y_lda) = 3

\* The pseudo-y of the marker of row r.
MarkerY(r) ==
    LET c == CHOOSE c \in SeriesOf(r) : TRUE
        n == CHOOSE n \in 1..Len(fig.series[c].points) :
                 fig.series[c].points[n].x = LD(r, 1)
    IN fig.series[c].points[n].y

\* C9: in a 2D figure with annotations and a single discriminant axis, the
\* annotation of every sample is anchored at the sample's LD1 value and at
\* the pseudo-y of its marker, an ordinal from 1 that differs between
\* groups.
C9_AnnotationOnMarker ==
    (Drawn /\ args.dimensions = 2 /\ args.annotate_points /\ X_lda.ncols = 1) =>
        /\ Len(fig.annotations) = Len(y_lda)
        /\ \A r \in 1..Len(y_lda) :
            /\ fig.annotations[r].s = df.index[r]
            /\ fig.annotations[r].x = LD(r, 1)
            /\ fig.annotations[r].y = MarkerY(r)
            /\ fig.annotations[r].y.kind = "const"
            /\ fig.annotations[r].y.a \in 1..Cardinality(DOMAIN class_colors)
        /\ \A r, q \in 1..Len(y_lda) :
            (fig.annotations[r].y = fig.annotations[q].y) <=> (y_lda[r] = y_lda[q])

C9_Witness ==
    /\ pc = "done"
    /\ args.dimensions = 2
    /\ args.annotate_points
    /\ X_lda.ncols = 1
    /\ Len(fig.annotations) = 3
    /\ fig.annotations[3].y = Const(2)
    /\ MarkerY(3) = Const(2)

\* C10: in a 2D figure with a single discriminant axis the pseudo-y of
\* every plotted point lies inside the y range (0.5, 2.5).
C10_PseudoYInRange ==
    (Drawn /\ args.dimensions = 2 /\ X_lda.ncols = 1) =>
        /\ fig.ylim_fixed
        /\ \A c \in DOMAIN fig.series : \A n \in 1..Len(fig.series[c].points) :
            /\ YLimLowHalves < 2 * fig.series[c].points[n].y.a
            /\ 2 * fig.series[c].points[n].y.a < YLimHighHalves
====
